---- MODULE Spec2Model ----
(***************************************************************************)
(* FreeLy 2.0: the document-generation jobs (risk analyses and proposals), *)
(* their version history, and the browser client that drives them.         *)
(*                                                                         *)
(* The client half (frontend/src/api/client.js and the React pages) is     *)
(* translated from the source.  The FastAPI backend (backend/main.py) is   *)
(* not among the source files; its handlers, in the section "backend"      *)
(* below, are modelled from the specification's contracts.                 *)
(***************************************************************************)
EXTENDS Integers, Sequences, FiniteSets, TLC

\* ------------------------------------------------------------------ bounds
MaxCreated == 1     \* jobs created from the dashboard forms
MaxLinked == 1      \* jobs created by cross-generation
MaxHist == 2        \* version entries the store holds at a time
MaxInFlight == 2    \* loads of an open report page awaiting their response
MaxClock == 2       \* readings the store's clock takes after the first
MaxEntries == 2     \* entries the browser history holds
MaxDeletes == 2     \* delete handlers of the dashboard awaiting their response

\* ------------------------------------------------------------ value domains
Owners   == {"u1", "u2"}            \* verified identities (Firebase uids)
NoUser   == "null"                  \* auth.currentUser === null
Users    == Owners \cup {NoUser}
Ids      == 1..(MaxCreated + MaxLinked)
ProbeIds == 1..(MaxCreated + MaxLinked + 1)  \* ids a caller may name; the last never exists
NoId     == 0                       \* a collection path without an id
Kinds    == {"risk_analysis", "proposal"}
Status   == {"pending", "processing", "completed", "failed"}
Inputs   == {"", "chat1", "chat2"}  \* input_data.chat_content; "" is empty
Edits    == {"A", "B", "C"}           \* texts a user saves
Generated == "G"                    \* what the LLM adapter returns
Diagnostic == "error"               \* results.error payload of a failed job
NoResults == "absent"               \* results field not set
Indexes  == (0 - 1)..MaxHist        \* version_index values a caller may send

VARIABLES
    jobs,       \* Document Store: id -> job record, for the jobs that exist
    versions,   \* Document Store: id -> sequence of version entries
    nextId,     \* next id the store assigns
    linked,     \* how many jobs cross-generation has created so far
    last,       \* the call whose outcome the client is handling, or Idle
    page,       \* the state of an open report page, or Closed
    now,        \* the store's clock: the time a write is stamped with
    route,      \* the browser: who is signed in, its history, what App renders
    dash        \* the state of a mounted dashboard, or Unmounted

vars == <<jobs, versions, nextId, linked, last, page, now, route, dash>>

Store == [jobs |-> jobs, versions |-> versions, nextId |-> nextId, now |-> now]

\* =================================================================== client
\* frontend/src/api/client.js

Collection(kind) == IF kind = "proposal" THEN "proposals" ELSE "risk-analysis"

NoFile == "nofile"                  \* no file chosen (chatFile === null)

NoBody == [version_index |-> "", text |-> "", file |-> NoFile, name |-> ""]

Request(method, coll, id, sub, body) ==
    [method |-> method, coll |-> coll, id |-> id, sub |-> sub, body |-> body]

createRiskAnalysis(formData) == Request("POST", "risk-analysis", NoId, "", formData)

getRiskAnalyses == Request("GET", "risk-analysis", NoId, "", NoBody)

getRiskAnalysis(analysisId) == Request("GET", "risk-analysis", analysisId, "", NoBody)

\* Variant: the request is sent without the DELETE method.
deleteRiskAnalysis_noMethod(analysisId) ==
    Request("GET", "risk-analysis", analysisId, "", NoBody)

deleteRiskAnalysis(analysisId) == Request("DELETE", "risk-analysis", analysisId, "", NoBody)

createProposal(formData) == Request("POST", "proposals", NoId, "", formData)

getProposals == Request("GET", "proposals", NoId, "", NoBody)

getProposal(proposalId) == Request("GET", "proposals", proposalId, "", NoBody)

\* Variant: the request is sent without the DELETE method.
deleteProposal_noMethod(proposalId) == Request("GET", "proposals", proposalId, "", NoBody)

deleteProposal(proposalId) == Request("DELETE", "proposals", proposalId, "", NoBody)

\* Variant: the changes are sent to the save route.
updateProposal_asSave(proposalId, userChanges, chatFile) ==
    Request("PUT", "proposals", proposalId, "save",
            [NoBody EXCEPT !.text = userChanges, !.file = chatFile])

updateProposal(proposalId, userChanges, chatFile) ==
    Request("PATCH", "proposals", proposalId, "",
            [NoBody EXCEPT !.text = userChanges, !.file = chatFile])

getProposalHistory(proposalId) == Request("GET", "proposals", proposalId, "history", NoBody)

\* Variant: the index is sent one-based.
restoreProposalVersion_oneBased(proposalId, versionIndex) ==
    Request("POST", "proposals", proposalId, "restore",
            [NoBody EXCEPT !.version_index = ToString(versionIndex + 1)])

restoreProposalVersion(proposalId, versionIndex) ==
    Request("POST", "proposals", proposalId, "restore",
            [NoBody EXCEPT !.version_index = ToString(versionIndex)])

\* Variant: the text is sent to the update route instead of the save route.
saveEditedProposal_asUpdate(proposalId, formattedProposal) ==
    Request("PATCH", "proposals", proposalId, "",
            [NoBody EXCEPT !.text = formattedProposal])

saveEditedProposal(proposalId, formattedProposal) ==
    Request("PUT", "proposals", proposalId, "save",
            [NoBody EXCEPT !.text = formattedProposal])

generateRiskReportFromProposal(proposalId) ==
    Request("POST", "proposals", proposalId, "generate-risk-report", NoBody)

\* Variant: the path lacks its /generate-proposal suffix.
generateProposalFromRiskAnalysis_noSuffix(analysisId) ==
    Request("POST", "risk-analysis", analysisId, "", NoBody)

generateProposalFromRiskAnalysis(analysisId) ==
    Request("POST", "risk-analysis", analysisId, "generate-proposal", NoBody)

\* Variant: the chosen file is not appended to the form.
FormData_noFile(clientName, chatFile) ==
    [NoBody EXCEPT !.name = clientName]

\* The form handleSubmit / handleGenerateProposal build (DashboardPage).
FormData(clientName, chatFile) ==
    [NoBody EXCEPT !.name = clientName, !.file = chatFile]

\* Variant: the null of a missing token passes for a token.
NoToken_truthy == [uid |-> NoUser, fresh |-> FALSE, present |-> TRUE]

\* getIdToken: null when nobody is signed in or when the Firebase SDK throws;
\* otherwise the user's ID token, refreshed when forceRefresh.
NoToken == [uid |-> NoUser, fresh |-> FALSE, present |-> FALSE]

\* Variant: the token of the first account is kept after the user changes.
getIdToken_keptToken(user, forceRefresh, sdkOk) ==
    IF user = NoUser THEN NoToken
    ELSE IF ~sdkOk THEN NoToken
    ELSE [uid |-> "u1", fresh |-> forceRefresh, present |-> TRUE]

getIdToken(user, forceRefresh, sdkOk) ==
    IF user = NoUser THEN NoToken
    ELSE IF ~sdkOk THEN NoToken
    ELSE [uid |-> user, fresh |-> forceRefresh, present |-> TRUE]

\* What one call of apiRequest meets outside the repository: whether the SDK
\* yields a token, and whether the backend's verifier accepts it, on the first
\* attempt and on the retry.
Envs ==
    { [sdk |-> <<TRUE, TRUE>>,  verify |-> <<TRUE, TRUE>>],
      [sdk |-> <<FALSE, TRUE>>, verify |-> <<TRUE, TRUE>>],
      [sdk |-> <<TRUE, FALSE>>, verify |-> <<FALSE, TRUE>>],
      [sdk |-> <<TRUE, TRUE>>,  verify |-> <<FALSE, TRUE>>],
      [sdk |-> <<TRUE, TRUE>>,  verify |-> <<FALSE, FALSE>>] }

\* ================================================================== backend
\* The Document Store, Job Lifecycle Manager, Version History Engine and
\* Cross-Generation Linker of spec.md, behind the routes client.js calls.

NoJson == [tag |-> "none"]

Response(store, status, detail, json) ==
    [store |-> store, ok |-> (status \in {200, 204}), status |-> status,
     detail |-> detail, json |-> json]

KindOf(coll) == IF coll = "proposals" THEN "proposal" ELSE "risk_analysis"

Opposite(kind) == IF kind = "proposal" THEN "risk_analysis" ELSE "proposal"

\* All operations are scoped to the owner: a job of another owner, of the other
\* collection, or a deleted one is not found.
Visible(store, owner, kind, id) ==
    /\ id \in DOMAIN store.jobs
    /\ store.jobs[id].owner = owner
    /\ store.jobs[id].kind = kind

NotFound(store) == Response(store, 404, "NotFoundError", NoJson)

JobJson(store, id) == [tag |-> "job", id |-> id, job |-> store.jobs[id]]

NewJob(owner, kind, input, seed) ==
    [owner |-> owner, kind |-> kind, status |-> "pending", input_data |-> input,
     results |-> NoResults, pointer |-> 0 - 1, regen |-> FALSE, seeded |-> seed,
     created_at |-> 0, updated_at |-> 0]

\* Variant: a write leaves updated_at as it was.
Touched_keepsTime(store, id) == store

\* updated_at is refreshed on every state or content mutation.
Touched(store, id) == [store EXCEPT !.jobs[id].updated_at = store.now]

\* Adds a job under a fresh id, created now; a proposal starts with an empty
\* version log.
Insert(store, job) ==
    LET id == store.nextId
    IN  [jobs |-> [i \in DOMAIN store.jobs \cup {id} |->
                      IF i = id
                      THEN [job EXCEPT !.created_at = store.now,
                                       !.updated_at = store.now]
                      ELSE store.jobs[i]],
         versions |-> IF job.kind = "proposal"
                      THEN [i \in DOMAIN store.versions \cup {id} |->
                              IF i = id THEN <<>> ELSE store.versions[i]]
                      ELSE store.versions,
         nextId |-> id + 1,
         now |-> store.now]

\* 4.1 create: job in pending; the adapter is invoked asynchronously.
create(store, owner, kind, body) ==
    IF body.name = "" \/ body.file = NoFile
    THEN Response(store, 422, "ValidationError", NoJson)
    ELSE LET after == Insert(store, NewJob(owner, kind, body.file, "none"))
         IN  Response(after, 200, "", JobJson(after, store.nextId))

\* The owner's jobs of one kind, in the order of their ids.
RECURSIVE Listed(_, _, _, _)
Listed(store, owner, kind, from) ==
    IF from >= store.nextId THEN <<>>
    ELSE (IF Visible(store, owner, kind, from) THEN <<from>> ELSE <<>>)
             \o Listed(store, owner, kind, from + 1)

list(store, owner, kind) ==
    Response(store, 200, "", [tag |-> "list", ids |-> Listed(store, owner, kind, 1)])

get(store, owner, kind, id) ==
    IF ~Visible(store, owner, kind, id) THEN NotFound(store)
    ELSE Response(store, 200, "", JobJson(store, id))

\* Hard delete, cascading to the version history.
delete(store, owner, kind, id) ==
    IF ~Visible(store, owner, kind, id) THEN NotFound(store)
    ELSE Response([store EXCEPT
                      !.jobs = [i \in DOMAIN store.jobs \ {id} |-> store.jobs[i]],
                      !.versions = [i \in DOMAIN store.versions \ {id} |->
                                       store.versions[i]]],
                  200, "", NoJson)

\* ---- 4.2 Version History Engine
Truncated(log, pointer) == SubSeq(log, 1, pointer + 1)

\* Variant: an append leaves the live content as it was.
Appended_keepsResults(store, id, content) ==
    LET log == Truncated(store.versions[id], store.jobs[id].pointer) \o <<content>>
    IN  Touched([store EXCEPT !.versions[id] = log,
                              !.jobs[id].pointer = Len(log) - 1], id)

\* append: drop the entries past the pointer, add the content at the tail,
\* move the pointer to the new tail; the live content becomes the new entry.
Appended(store, id, content) ==
    LET log == Truncated(store.versions[id], store.jobs[id].pointer) \o <<content>>
    IN  Touched([store EXCEPT !.versions[id] = log,
                              !.jobs[id].pointer = Len(log) - 1,
                              !.jobs[id].results = content], id)

append(store, owner, id, content) ==
    IF ~Visible(store, owner, "proposal", id) THEN NotFound(store)
    ELSE LET after == Appended(store, id, content)
         IN  Response(after, 200, "", JobJson(after, id))

\* The form field arrives as text; the route reads it back as an integer.
ParseIndex(text) ==
    IF \E i \in ((0 - 2)..(MaxHist + 2)) : ToString(i) = text
    THEN CHOOSE i \in ((0 - 2)..(MaxHist + 2)) : ToString(i) = text
    ELSE 0 - 2

\* Variant: a restore is recorded as a new entry at the tail.
restore_asNewVersion(store, owner, id, index) ==
    IF ~Visible(store, owner, "proposal", id) THEN NotFound(store)
    ELSE IF ~(0 <= index /\ index < Len(store.versions[id]))
    THEN Response(store, 400, "OutOfRangeError", NoJson)
    ELSE LET log == Append(store.versions[id], store.versions[id][index + 1])
             after == Touched([store EXCEPT
                          !.versions[id] = log,
                          !.jobs[id].results = store.versions[id][index + 1],
                          !.jobs[id].pointer = Len(log) - 1], id)
         IN  Response(after, 200, "", JobJson(after, id))

restore(store, owner, id, index) ==
    IF ~Visible(store, owner, "proposal", id) THEN NotFound(store)
    ELSE IF ~(0 <= index /\ index < Len(store.versions[id]))
    THEN Response(store, 400, "OutOfRangeError", NoJson)
    ELSE LET after == Touched([store EXCEPT
                          !.jobs[id].results = store.versions[id][index + 1],
                          !.jobs[id].pointer = index], id)
         IN  Response(after, 200, "", JobJson(after, id))

history(store, owner, id) ==
    IF ~Visible(store, owner, "proposal", id) THEN NotFound(store)
    ELSE Response(store, 200, "",
                  [tag |-> "history", history |-> store.versions[id],
                   current_version_index |-> store.jobs[id].pointer])

\* ---- update: generation is re-invoked on the existing proposal ("retry");
\* the call returns at once, the outcome shows on the job.
\* Variant: a new source file replaces the captured input.
update_replacesInput(store, owner, id, body) ==
    IF ~Visible(store, owner, "proposal", id) THEN NotFound(store)
    ELSE IF body.text = "" /\ body.file = NoFile
    THEN Response(store, 422, "ValidationError", NoJson)
    ELSE LET after == Touched([store EXCEPT
                          !.jobs[id].status = "processing",
                          !.jobs[id].regen = TRUE,
                          !.jobs[id].input_data =
                              IF body.file = NoFile THEN @ ELSE body.file], id)
         IN  Response(after, 200, "", JobJson(after, id))

update(store, owner, id, body) ==
    IF ~Visible(store, owner, "proposal", id) THEN NotFound(store)
    ELSE IF body.text = "" /\ body.file = NoFile
    THEN Response(store, 422, "ValidationError", NoJson)
    ELSE LET after == Touched([store EXCEPT !.jobs[id].status = "processing",
                                            !.jobs[id].regen = TRUE], id)
         IN  Response(after, 200, "", JobJson(after, id))

\* ---- 4.3 Cross-Generation Linker
\* Variant: the new job is of the source's kind.
generate_sameKind(store, owner, kind, id) ==
    IF ~Visible(store, owner, kind, id) THEN NotFound(store)
    ELSE IF store.jobs[id].status # "completed" \/ store.jobs[id].input_data = ""
    THEN Response(store, 400, "PreconditionError", NoJson)
    ELSE LET after == Insert(store, NewJob(store.jobs[id].owner, kind,
                                           store.jobs[id].input_data,
                                           store.jobs[id].status))
         IN  Response(after, 200, "", JobJson(after, store.nextId))

generate(store, owner, kind, id) ==
    IF ~Visible(store, owner, kind, id) THEN NotFound(store)
    ELSE IF store.jobs[id].status # "completed" \/ store.jobs[id].input_data = ""
    THEN Response(store, 400, "PreconditionError", NoJson)
    ELSE LET after == Insert(store, NewJob(store.jobs[id].owner, Opposite(kind),
                                           store.jobs[id].input_data,
                                           store.jobs[id].status))
         IN  Response(after, 200, "", JobJson(after, store.nextId))

generate_proposal_from_analysis(store, owner, id) ==
    generate(store, owner, "risk_analysis", id)

generate_risk_report_from_proposal(store, owner, id) ==
    generate(store, owner, "proposal", id)

\* ---- 6 exposed interface: the routes
Route(store, owner, req) ==
    CASE req.method = "POST" /\ req.id = NoId /\ req.sub = "" ->
            create(store, owner, KindOf(req.coll), req.body)
      [] req.method = "GET" /\ req.id = NoId /\ req.sub = "" ->
            list(store, owner, KindOf(req.coll))
      [] req.method = "GET" /\ req.id # NoId /\ req.sub = "" ->
            get(store, owner, KindOf(req.coll), req.id)
      [] req.method = "DELETE" /\ req.id # NoId /\ req.sub = "" ->
            delete(store, owner, KindOf(req.coll), req.id)
      [] req.method = "PATCH" /\ req.coll = "proposals" /\ req.sub = "" ->
            update(store, owner, req.id, req.body)
      [] req.method = "GET" /\ req.coll = "proposals" /\ req.sub = "history" ->
            history(store, owner, req.id)
      [] req.method = "POST" /\ req.coll = "proposals" /\ req.sub = "restore" ->
            restore(store, owner, req.id, ParseIndex(req.body.version_index))
      [] req.method = "PUT" /\ req.coll = "proposals" /\ req.sub = "save" ->
            append(store, owner, req.id, req.body.text)
      [] req.method = "POST" /\ req.coll = "proposals"
            /\ req.sub = "generate-risk-report" ->
            generate_risk_report_from_proposal(store, owner, req.id)
      [] req.method = "POST" /\ req.coll = "risk-analysis"
            /\ req.sub = "generate-proposal" ->
            generate_proposal_from_analysis(store, owner, req.id)
      [] OTHER -> Response(store, 405, "Method Not Allowed", NoJson)

\* The authentication collaborator in front of every route.
fetch(store, token, verified, req) ==
    IF ~verified THEN Response(store, 401, "AuthenticationError", NoJson)
    ELSE Route(store, token.uid, req)

\* ============================================================ client, again
\* apiRequest: what the caller gets (threw, status, message, value) and the
\* store the backend is left with; fetches counts the HTTP requests sent, and
\* attempts lists them: the token each carried and the status it was answered.
Outcome(store, threw, status, message, value, fetches) ==
    [store |-> store, threw |-> threw, status |-> status, message |-> message,
     value |-> value, fetches |-> fetches, attempts |-> <<>>]

Attempt(token, response) == [token |-> token, status |-> response.status]

After(attempt, outcome) == [outcome EXCEPT !.attempts = <<attempt>> \o @]

\* Variant: a response that is not ok is returned instead of thrown.
RECURSIVE apiRequest_noThrow(_, _, _, _, _)
apiRequest_noThrow(store, user, env, req, retryCount) ==
    LET token == getIdToken(user, retryCount = 0, env.sdk[retryCount + 1])
    IN  IF ~token.present
        THEN Outcome(store, TRUE, 0, "Authentication required", NoJson, retryCount)
        ELSE LET response == fetch(store, token, env.verify[retryCount + 1], req)
             IN  After(Attempt(token, response),
                 IF ~response.ok /\ response.status = 401 /\ retryCount = 0
                 THEN apiRequest_noThrow(response.store, user, env, req, retryCount + 1)
                 ELSE IF response.status = 204
                 THEN Outcome(response.store, FALSE, 204, "", NoJson, retryCount + 1)
                 ELSE Outcome(response.store, FALSE, response.status, "",
                              response.json, retryCount + 1))

RECURSIVE apiRequest(_, _, _, _, _)
apiRequest(store, user, env, req, retryCount) ==
    LET token == getIdToken(user, retryCount = 0, env.sdk[retryCount + 1])
    IN  IF ~token.present
        THEN Outcome(store, TRUE, 0, "Authentication required", NoJson, retryCount)
        ELSE LET response == fetch(store, token, env.verify[retryCount + 1], req)
             IN  After(Attempt(token, response),
                 IF ~response.ok /\ response.status = 401 /\ retryCount = 0
                 THEN apiRequest(response.store, user, env, req, retryCount + 1)
                 ELSE IF ~response.ok
                 THEN Outcome(response.store, TRUE, response.status,
                              response.detail, NoJson, retryCount + 1)
                 ELSE IF response.status = 204
                 THEN Outcome(response.store, FALSE, 204, "", NoJson, retryCount + 1)
                 ELSE Outcome(response.store, FALSE, response.status, "",
                              response.json, retryCount + 1))

\* ================================================================== actions
Names == {"", "acme"}               \* formData.clientName after trim()
Files == Inputs \cup {NoFile}       \* formData.chatFile: its text, or none

\* Who calls, and what the call meets.  Nobody signed in meets no further
\* environment; a call that the environment fails ends the same way for
\* every owner, so one owner meets the failing environments.
Smooth == [sdk |-> <<TRUE, TRUE>>, verify |-> <<TRUE, TRUE>>]

\* The backend rejects the token, on the first attempt and on the retry.
Rejected == [sdk |-> <<TRUE, TRUE>>, verify |-> <<FALSE, FALSE>>]

Callers ==
    { [user |-> u, env |-> Smooth] : u \in Users }
        \cup { [user |-> "u1", env |-> e] : e \in Envs }

Idle == [fn |-> "idle", outcome |-> ""]

Closed == [open |-> FALSE]          \* no report page is mounted

Nowhere == [open |-> FALSE]         \* no browser tab is followed

Unmounted == [open |-> FALSE]       \* no dashboard is mounted

Init ==
    /\ jobs = <<>>
    /\ versions = <<>>
    /\ nextId = 1
    /\ linked = 0
    /\ last = Idle
    /\ page = Closed
    /\ now = 0
    /\ route = Nowhere
    /\ dash = Unmounted

\* Version entries held, counting one for each generation that will append.
Load ==
    LET RECURSIVE Sum(_)
        Sum(S) == IF S = {} THEN 0
                  ELSE LET i == CHOOSE i \in S : TRUE
                       IN  Len(versions[i]) + (IF jobs[i].regen THEN 1 ELSE 0)
                           + Sum(S \ {i})
    IN  Sum(DOMAIN versions)

\* The store after the call, and what the caller saw of it; a call that
\* reached no route is recorded as apiRequest's own failure.
Finish(fn, id, r) ==
    /\ last = Idle
    /\ jobs' = r.store.jobs
    /\ versions' = r.store.versions
    /\ nextId' = r.store.nextId
    /\ last' = [fn |-> IF r.threw /\ r.status \in {0, 401} THEN "apiRequest" ELSE fn,
                outcome |-> IF r.threw THEN r.message ELSE "ok"]
    /\ UNCHANGED <<page, now, route, dash>>

ReturnedId(r) == IF r.threw THEN NoId ELSE r.value.id

\* setError(...) and return, before any request is sent.
Refuse(fn, message) ==
    /\ last = Idle
    /\ UNCHANGED <<jobs, versions, nextId, linked, page, now, route, dash>>
    /\ last' = [fn |-> fn, outcome |-> message]

\* The handler is done with the outcome (its finally block).
Settle ==
    /\ last # Idle
    /\ last' = Idle
    /\ UNCHANGED <<jobs, versions, nextId, linked, page, now, route, dash>>

\* DashboardPage.handleSubmit: new risk analysis from the import form.
handleSubmit(c, clientName, chatFile) ==
    /\ last = Idle
    /\ nextId - 1 - linked < MaxCreated
    /\ UNCHANGED linked
    /\ IF clientName = ""
       THEN Refuse("handleSubmit", "Please enter a client/project name")
       ELSE IF chatFile = NoFile
       THEN Refuse("handleSubmit", "Please select a chat file to import")
       ELSE LET r == apiRequest(Store, c.user, c.env,
                                createRiskAnalysis(FormData(clientName, chatFile)), 0)
            IN  Finish("createRiskAnalysis", ReturnedId(r), r)

\* DashboardPage.handleGenerateProposal: new proposal from the import form.
handleGenerateProposal(c, clientName, chatFile) ==
    /\ last = Idle
    /\ nextId - 1 - linked < MaxCreated
    /\ UNCHANGED linked
    /\ IF clientName = ""
       THEN Refuse("handleGenerateProposal", "Please enter a client/project name")
       ELSE IF chatFile = NoFile
       THEN Refuse("handleGenerateProposal", "Please select a chat file to import")
       ELSE LET r == apiRequest(Store, c.user, c.env,
                                createProposal(FormData(clientName, chatFile)), 0)
            IN  Finish("createProposal", ReturnedId(r), r)

\* RiskAnalysisReportPage.loadAnalysis
loadAnalysis(c, analysisId) ==
    /\ UNCHANGED linked
    /\ Finish("getRiskAnalysis", analysisId,
              apiRequest(Store, c.user, c.env, getRiskAnalysis(analysisId), 0))

\* ProposalReportPage.loadProposal
loadProposal(c, proposalId) ==
    /\ UNCHANGED linked
    /\ Finish("getProposal", proposalId,
              apiRequest(Store, c.user, c.env, getProposal(proposalId), 0))

\* ProposalReportPage.loadProposalHistory
loadProposalHistory(c, proposalId) ==
    /\ UNCHANGED linked
    /\ Finish("getProposalHistory", proposalId,
              apiRequest(Store, c.user, c.env, getProposalHistory(proposalId), 0))

\* The confirmed delete of a risk analysis (report page or dashboard menu).
DeleteAnalysis(c, analysisId) ==
    /\ UNCHANGED linked
    /\ Finish("deleteRiskAnalysis", analysisId,
              apiRequest(Store, c.user, c.env, deleteRiskAnalysis(analysisId), 0))

\* The confirmed delete of a proposal.
DeleteProposal(c, proposalId) ==
    /\ UNCHANGED linked
    /\ Finish("deleteProposal", proposalId,
              apiRequest(Store, c.user, c.env, deleteProposal(proposalId), 0))

\* Variant: the update dialog is offered whatever the proposal's status.
SubmitUpdate_anyStatus(c, proposalId, changes, chatFile) ==
    /\ last = Idle
    /\ changes # "" \/ chatFile # NoFile
    /\ proposalId \in DOMAIN jobs =>
          /\ Visible(Store, c.user, "proposal", proposalId)
          /\ Load + 1 <= MaxHist
    /\ UNCHANGED linked
    /\ Finish("updateProposal", proposalId,
              apiRequest(Store, c.user, c.env,
                         updateProposal(proposalId, changes, chatFile), 0))

\* The update dialog of ProposalReportPage.  The dialog is reached only from
\* the block rendered for a completed proposal with results, and its submit
\* button needs changes or a file; the proposal may have been deleted since.
SubmitUpdate(c, proposalId, changes, chatFile) ==
    /\ last = Idle
    /\ changes # "" \/ chatFile # NoFile
    /\ proposalId \in DOMAIN jobs =>
          /\ Visible(Store, c.user, "proposal", proposalId)
          /\ jobs[proposalId].status = "completed"
          /\ jobs[proposalId].results # NoResults
          /\ Load + 1 <= MaxHist
    /\ UNCHANGED linked
    /\ Finish("updateProposal", proposalId,
              apiRequest(Store, c.user, c.env,
                         updateProposal(proposalId, changes, chatFile), 0))

\* A restore request for any index (undo, redo, or a stale page).
RestoreVersion(c, proposalId, versionIndex) ==
    /\ UNCHANGED linked
    /\ Finish("restoreProposalVersion", proposalId,
              apiRequest(Store, c.user, c.env,
                         restoreProposalVersion(proposalId, versionIndex), 0))

\* Save Changes in edit mode.
SaveEdited(c, proposalId, text) ==
    /\ last = Idle
    /\ proposalId \in DOMAIN versions =>
          Load - Len(versions[proposalId]) + jobs[proposalId].pointer + 2 <= MaxHist
    /\ UNCHANGED linked
    /\ Finish("saveEditedProposal", proposalId,
              apiRequest(Store, c.user, c.env, saveEditedProposal(proposalId, text), 0))

\* How many jobs the call added to the store.
Added(r) == r.store.nextId - nextId

\* RiskAnalysisReportPage.handleGenerateProposal
GenerateProposal(c, analysisId) ==
    LET r == apiRequest(Store, c.user, c.env,
                        generateProposalFromRiskAnalysis(analysisId), 0)
    IN  /\ last = Idle
        /\ linked + Added(r) <= MaxLinked
        /\ linked' = linked + Added(r)
        /\ Finish("generateProposalFromRiskAnalysis", analysisId, r)

\* ProposalReportPage.handleGenerateRiskReport
handleGenerateRiskReport(c, proposalId) ==
    LET r == apiRequest(Store, c.user, c.env,
                        generateRiskReportFromProposal(proposalId), 0)
    IN  /\ last = Idle
        /\ linked + Added(r) <= MaxLinked
        /\ linked' = linked + Added(r)
        /\ Finish("generateRiskReportFromProposal", proposalId, r)

\* ---- 4.1 Job Lifecycle Manager: the background generation of one job
\* Variant: the generation is started for risk analyses only.
AdapterAccepts_analysesOnly(id) ==
    /\ last = Idle
    /\ id \in DOMAIN jobs
    /\ jobs[id].status = "pending"
    /\ jobs[id].kind = "risk_analysis"
    /\ jobs' = Touched([Store EXCEPT !.jobs[id].status = "processing"], id).jobs
    /\ UNCHANGED <<versions, nextId, linked, last, page, now, route, dash>>

AdapterAccepts(id) ==
    /\ last = Idle
    /\ id \in DOMAIN jobs
    /\ jobs[id].status = "pending"
    /\ jobs' = Touched([Store EXCEPT !.jobs[id].status = "processing"], id).jobs
    /\ UNCHANGED <<versions, nextId, linked, last, page, now, route, dash>>

\* Success stores the result; a re-invoked generation also appends it as a
\* new version.
Succeeded(store, id) ==
    LET done == [store EXCEPT !.jobs[id].status = "completed",
                              !.jobs[id].results = Generated,
                              !.jobs[id].regen = FALSE]
    IN  IF store.jobs[id].regen THEN Appended(done, id, Generated)
        ELSE Touched(done, id)

AdapterSucceeds(id) ==
    /\ last = Idle
    /\ id \in DOMAIN jobs
    /\ jobs[id].status = "processing"
    /\ jobs' = Succeeded(Store, id).jobs
    /\ versions' = Succeeded(Store, id).versions
    /\ UNCHANGED <<nextId, linked, last, page, now, route, dash>>

\* Failure stores a diagnostic when there is one, else leaves results alone.
AdapterFails(id, diagnostic) ==
    /\ last = Idle
    /\ id \in DOMAIN jobs
    /\ jobs[id].status = "processing"
    /\ jobs' = Touched([Store EXCEPT
                            !.jobs[id].status = "failed",
                            !.jobs[id].regen = FALSE,
                            !.jobs[id].results =
                                IF diagnostic THEN Diagnostic ELSE @], id).jobs
    /\ UNCHANGED <<versions, nextId, linked, last, page, now, route, dash>>

\* Operations on the jobs that exist: reads, deletes, cross-generation and
\* the background generation.
Operate ==
    \/ \E c \in Callers, i \in ProbeIds : loadAnalysis(c, i)
    \/ \E c \in Callers, i \in ProbeIds : loadProposal(c, i)
    \/ \E c \in Callers, i \in ProbeIds : DeleteAnalysis(c, i)
    \/ \E c \in Callers, i \in ProbeIds : DeleteProposal(c, i)
    \/ \E c \in Callers, i \in ProbeIds : handleGenerateRiskReport(c, i)
    \/ \E i \in Ids : AdapterAccepts(i)
    \/ \E i \in Ids : AdapterSucceeds(i)
    \/ \E i \in Ids, d \in BOOLEAN : AdapterFails(i, d)
    \/ Settle

\* The dashboard: jobs are created from the forms and from each other.
Next ==
    \/ \E c \in Callers, n \in Names, f \in Files : handleSubmit(c, n, f)
    \/ \E c \in Callers, n \in Names, f \in Files : handleGenerateProposal(c, n, f)
    \/ \E c \in Callers, i \in ProbeIds : GenerateProposal(c, i)
    \/ Operate

Spec == Init /\ [][Next]_vars

\* The proposal page: one proposal, from the moment the form created it, with
\* every operation an existing job takes.
InitEdit ==
    /\ \E u \in Owners, f \in {"", "chat1"} :
          LET made == create([jobs |-> <<>>, versions |-> <<>>, nextId |-> 1, now |-> 0],
                             u, "proposal", FormData("acme", f)).store
          IN  /\ jobs = made.jobs
              /\ versions = made.versions
              /\ nextId = made.nextId
    /\ linked = 0
    /\ last = Idle
    /\ page = Closed
    /\ now = 0
    /\ route = Nowhere
    /\ dash = Unmounted

NextEdit ==
    \/ \E c \in Callers, i \in ProbeIds : loadProposalHistory(c, i)
    \/ \E c \in Callers, i \in ProbeIds, t \in {"", "shorter"}, f \in {NoFile, "chat2"} :
          SubmitUpdate(c, i, t, f)
    \/ \E c \in Callers, i \in ProbeIds, x \in Indexes : RestoreVersion(c, i, x)
    \/ \E c \in Callers, i \in ProbeIds, t \in Edits : SaveEdited(c, i, t)
    \/ Operate

SpecEdit == InitEdit /\ [][NextEdit]_vars

\* The store's clock moves on between the writes.
Tick ==
    /\ now < MaxClock
    /\ now' = now + 1
    /\ UNCHANGED <<jobs, versions, nextId, linked, last, page, route, dash>>

Signed(u) == [user |-> u, env |-> Smooth]    \* u, signed in, requests going through

\* One proposal and what its owner and the generation write to it, as time
\* passes.
NextClock ==
    \/ Tick
    \/ \E u \in Owners, f \in {NoFile, "chat2"} : SubmitUpdate(Signed(u), 1, "shorter", f)
    \/ \E u \in Owners, x \in Indexes : RestoreVersion(Signed(u), 1, x)
    \/ \E u \in Owners : SaveEdited(Signed(u), 1, "A")
    \/ \E u \in Owners : handleGenerateRiskReport(Signed(u), 1)
    \/ \E i \in Ids : AdapterAccepts(i)
    \/ \E i \in Ids : AdapterSucceeds(i)
    \/ \E i \in Ids, d \in BOOLEAN : AdapterFails(i, d)
    \/ Settle

SpecClock == InitEdit /\ [][NextClock]_vars

\* One proposal from its creation on: updated, cross-generated from and
\* deleted by its owner while the generations run.
NextLive ==
    \/ \E u \in Owners, f \in {NoFile, "chat2"} : SubmitUpdate(Signed(u), 1, "shorter", f)
    \/ \E u \in Owners : SaveEdited(Signed(u), 1, "A")
    \/ \E u \in Owners : handleGenerateRiskReport(Signed(u), 1)
    \/ \E u \in Owners : DeleteProposal(Signed(u), 1)
    \/ \E u \in Owners, i \in Ids : DeleteAnalysis(Signed(u), i)
    \/ \E i \in Ids : AdapterAccepts(i)
    \/ \E i \in Ids : AdapterSucceeds(i)
    \/ \E i \in Ids, d \in BOOLEAN : AdapterFails(i, d)
    \/ Settle

\* A handler finishes with the outcome it holds.  The generation of a job is
\* started, and its adapter call returns a result, raises an error, is
\* unreachable or times out, whatever the clients do meanwhile.
Fairness ==
    /\ WF_vars(Settle)
    /\ \A i \in Ids :
          /\ SF_vars(AdapterAccepts(i))
          /\ SF_vars(AdapterSucceeds(i) \/ \E d \in BOOLEAN : AdapterFails(i, d))

SpecLive == InitEdit /\ [][NextLive]_vars /\ Fairness

\* ============================================================ report pages
\* ProposalReportPage and RiskAnalysisReportPage: one page, open on one job,
\* with the background generation going on behind it.

Viewer == [user |-> "u1", env |-> Smooth]   \* who is signed in on the page

NoData == [status |-> "none", results |-> FALSE]    \* useState(null)

\* What the page uses of a loaded job: its status, and whether it has results.
Data(job) == [status |-> job.status, results |-> (job.results # NoResults)]

\* One getProposal / getRiskAnalysis of the page, as answered on this store.
Fetched(store, cause, kind, id) ==
    LET r == apiRequest(store, Viewer.user, Viewer.env,
                        IF kind = "proposal" THEN getProposal(id)
                        ELSE getRiskAnalysis(id), 0)
    IN  [cause |-> cause, threw |-> r.threw,
         data |-> IF r.threw THEN NoData ELSE Data(r.value.job)]

\* Variant: the effect looks at processing only.
PollEffect_processingOnly(proposal) ==
    ~(proposal = NoData \/ proposal.status # "processing")

\* The auto-refresh effect: the interval runs unless nothing is loaded or the
\* loaded status is neither pending nor processing.
PollEffect(proposal) ==
    ~(proposal = NoData
        \/ (proposal.status # "pending" /\ proposal.status # "processing"))

\* The page as mounted: nothing loaded, the first load on its way.
Mounted(store, kind, id) ==
    [open |-> TRUE, kind |-> kind, id |-> id, proposal |-> NoData,
     loading |-> TRUE, timer |-> PollEffect(NoData),
     fetches |-> <<Fetched(store, "mount", kind, id)>>,
     historyDue |-> FALSE, proposalHistoryLength |-> 0,
     currentVersionIndex |-> 0 - 1, undoRedoLoading |-> FALSE,
     pc |-> "idle", targetIndex |-> 0 - 1, text |-> "",
     showDeleteConfirm |-> FALSE, deleting |-> FALSE]

\* setProposal(data) and the effects that depend on the proposal: the polling
\* interval is set up anew, and the history is loaded when the status has
\* become completed.
setProposal(pg, data) ==
    [pg EXCEPT !.proposal = data,
               !.timer = PollEffect(data),
               !.historyDue = @ \/ (pg.kind = "proposal"
                                      /\ data.status = "completed"
                                      /\ pg.proposal.status # "completed")]

\* Variant: only the index is taken from the response.
setHistory_indexOnly(pg, r) ==
    IF r.threw THEN pg
    ELSE [pg EXCEPT !.currentVersionIndex = r.value.current_version_index]

\* loadProposalHistory's two setters; a failure is only logged.
setHistory(pg, r) ==
    IF r.threw THEN pg
    ELSE [pg EXCEPT !.proposalHistoryLength = Len(r.value.history),
                    !.currentVersionIndex = r.value.current_version_index]

Backstage == UNCHANGED <<jobs, versions, nextId, linked, last, now, route, dash>>

Without(seq, k) == SubSeq(seq, 1, k - 1) \o SubSeq(seq, k + 1, Len(seq))

\* A load goes out: setLoading(true) and the request.
Sent(pg, cause) ==
    [pg EXCEPT !.loading = TRUE,
               !.fetches = Append(@, Fetched(Store, cause, pg.kind, pg.id))]

\* The interval's callback.
interval ==
    /\ page.open /\ page.timer
    /\ Len(page.fetches) < MaxInFlight
    /\ page' = Sent(page, "timer")
    /\ Backstage

\* The Refresh button of the pending and processing blocks.
Refresh ==
    /\ page.open /\ ~page.loading
    /\ page.proposal.status \in {"pending", "processing"}
    /\ Len(page.fetches) < MaxInFlight
    /\ page' = Sent(page, "button")
    /\ Backstage

\* The response of one of the loads on their way arrives.
LoadReturns(k) ==
    /\ page.open
    /\ k \in 1..Len(page.fetches)
    /\ page' = [(IF page.fetches[k].threw THEN page
                 ELSE setProposal(page, page.fetches[k].data))
                   EXCEPT !.loading = FALSE,
                          !.fetches = Without(page.fetches, k)]
    /\ Backstage

PageCall(req) == apiRequest(Store, Viewer.user, Viewer.env, req, 0)

\* The effect on proposal.status: loadProposalHistory for a completed proposal.
HistoryEffect ==
    /\ page.open /\ page.historyDue
    /\ page' = [setHistory(page, PageCall(getProposalHistory(page.id)))
                   EXCEPT !.historyDue = FALSE]
    /\ Backstage

\* The block with the version controls, the editor and the update dialog is
\* rendered for a loaded, completed proposal with results, when no load is
\* replacing the page with the loading screen.
Shown(pg) ==
    /\ pg.open /\ pg.kind = "proposal"
    /\ ~pg.loading
    /\ pg.proposal.status = "completed"
    /\ pg.proposal.results

\* The disabled attributes of the undo and redo buttons.
UndoDisabled(pg) ==
    pg.undoRedoLoading \/ pg.proposalHistoryLength = 0 \/ pg.currentVersionIndex <= 0

RedoDisabled(pg) ==
    pg.undoRedoLoading \/ pg.proposalHistoryLength = 0
        \/ pg.currentVersionIndex >= pg.proposalHistoryLength - 1

UndoEnabled(pg) == Shown(pg) /\ ~UndoDisabled(pg)

RedoEnabled(pg) == Shown(pg) /\ ~RedoDisabled(pg)

\* Variant: undo is offered and carried out wherever the pointer is.
handleUndo_unguarded ==
    /\ Shown(page) /\ ~page.undoRedoLoading /\ page.pc = "idle"
    /\ page' = [page EXCEPT !.undoRedoLoading = TRUE, !.pc = "restore",
                            !.targetIndex = page.currentVersionIndex - 1]
    /\ Backstage

\* handleUndo, up to its first await.
handleUndo ==
    /\ UndoEnabled(page) /\ page.pc = "idle"
    /\ page' = IF page.currentVersionIndex <= 0 \/ page.proposalHistoryLength = 0
               THEN page
               ELSE [page EXCEPT !.undoRedoLoading = TRUE, !.pc = "restore",
                                 !.targetIndex = page.currentVersionIndex - 1]
    /\ Backstage

\* handleRedo, up to its first await.
handleRedo ==
    /\ RedoEnabled(page) /\ page.pc = "idle"
    /\ page' = IF page.currentVersionIndex >= page.proposalHistoryLength - 1
                    \/ page.proposalHistoryLength = 0
               THEN page
               ELSE [page EXCEPT !.undoRedoLoading = TRUE, !.pc = "restore",
                                 !.targetIndex = page.currentVersionIndex + 1]
    /\ Backstage

\* A handler's request is answered: on an error the handler alerts and ends,
\* else it goes on to loadProposal, which begins with setLoading(true).
Answered(r) ==
    /\ jobs' = r.store.jobs
    /\ versions' = r.store.versions
    /\ nextId' = r.store.nextId
    /\ UNCHANGED <<linked, last, now, route, dash>>
    /\ page' = IF r.threw
               THEN [page EXCEPT !.pc = "idle", !.undoRedoLoading = FALSE]
               ELSE [page EXCEPT !.pc = "reload", !.loading = TRUE]

RestoreReturns ==
    /\ page.open /\ page.pc = "restore"
    /\ Answered(PageCall(restoreProposalVersion(page.id, page.targetIndex)))

\* Save Changes in edit mode, up to its await.
SaveChanges(text) ==
    /\ Shown(page) /\ page.pc = "idle"
    /\ page.id \in DOMAIN versions =>
          Load - Len(versions[page.id]) + jobs[page.id].pointer + 2 <= MaxHist
    /\ page' = [page EXCEPT !.pc = "save", !.text = text]
    /\ Backstage

SaveReturns ==
    /\ page.open /\ page.pc = "save"
    /\ Answered(PageCall(saveEditedProposal(page.id, page.text)))

\* The update dialog's submit, up to its await.
SubmitChanges(changes) ==
    /\ Shown(page) /\ page.pc = "idle"
    /\ changes # ""
    /\ Load + 1 <= MaxHist
    /\ page' = [page EXCEPT !.pc = "update", !.text = changes]
    /\ Backstage

UpdateReturns ==
    /\ page.open /\ page.pc = "update"
    /\ Answered(PageCall(updateProposal(page.id, page.text, NoFile)))

\* The handler's await loadProposal().
Reload ==
    /\ page.open /\ page.pc = "reload"
    /\ LET f == Fetched(Store, "handler", page.kind, page.id)
       IN  page' = [(IF f.threw THEN page ELSE setProposal(page, f.data))
                       EXCEPT !.loading = FALSE, !.pc = "history"]
    /\ Backstage

\* The handler's await loadProposalHistory(), and its finally block.
HistoryReturns ==
    /\ page.open /\ page.pc = "history"
    /\ page' = [setHistory(page, PageCall(getProposalHistory(page.id)))
                   EXCEPT !.pc = "idle", !.undoRedoLoading = FALSE]
    /\ Backstage

\* A job of the viewer's, just created, and its report page just opened.
InitPage ==
    /\ \E kind \in Kinds :
          LET made == create([jobs |-> <<>>, versions |-> <<>>, nextId |-> 1, now |-> 0],
                             Viewer.user, kind, FormData("acme", "chat1")).store
          IN  /\ jobs = made.jobs
              /\ versions = made.versions
              /\ nextId = made.nextId
              /\ page = Mounted(made, kind, 1)
    /\ linked = 0
    /\ last = Idle
    /\ now = 0
    /\ route = Nowhere
    /\ dash = Unmounted

NextPage ==
    \/ interval
    \/ Refresh
    \/ \E k \in 1..MaxInFlight : LoadReturns(k)
    \/ HistoryEffect
    \/ handleUndo
    \/ handleRedo
    \/ RestoreReturns
    \/ \E t \in {"A", "B"} : SaveChanges(t)
    \/ SaveReturns
    \/ SubmitChanges("shorter")
    \/ UpdateReturns
    \/ Reload
    \/ HistoryReturns
    \/ \E i \in Ids : AdapterAccepts(i)
    \/ \E i \in Ids : AdapterSucceeds(i)
    \/ \E i \in Ids, d \in BOOLEAN : AdapterFails(i, d)

SpecPage == InitPage /\ [][NextPage]_vars

\* ------------------------------------------------- deleting from a report page
\* The page's main return, with the Delete button and the confirmation
\* block, is rendered once something is loaded and no load is on its way.
Rendered(pg) == pg.open /\ ~pg.loading /\ pg.proposal # NoData

\* Variant: the first activation sends the request.
handleDelete_oneStep ==
    /\ Rendered(page) /\ ~page.deleting
    /\ page' = [page EXCEPT !.deleting = TRUE]
    /\ Backstage

\* handleDelete, from the Delete button or from "Yes, Delete", up to its
\* await: the first activation only asks for the confirmation.
handleDelete ==
    /\ Rendered(page) /\ ~page.deleting
    /\ page' = IF ~page.showDeleteConfirm
               THEN [page EXCEPT !.showDeleteConfirm = TRUE]
               ELSE [page EXCEPT !.deleting = TRUE]
    /\ Backstage

\* The Cancel button of the confirmation block.
Cancel ==
    /\ Rendered(page) /\ page.showDeleteConfirm
    /\ page' = [page EXCEPT !.showDeleteConfirm = FALSE]
    /\ Backstage

\* The delete request is answered: navigate('/') leaves the page, an error
\* is shown on it; both flags are reset on the way out.
DeleteAnswered(env) ==
    /\ page.open /\ page.deleting
    /\ LET r == apiRequest(Store, Viewer.user, env,
                           IF page.kind = "proposal" THEN deleteProposal(page.id)
                           ELSE deleteRiskAnalysis(page.id), 0)
       IN  /\ jobs' = r.store.jobs
           /\ versions' = r.store.versions
           /\ nextId' = r.store.nextId
           /\ page' = IF r.threw
                      THEN [page EXCEPT !.deleting = FALSE, !.showDeleteConfirm = FALSE]
                      ELSE Closed
    /\ UNCHANGED <<linked, last, now, route, dash>>

NextDelete ==
    \/ handleDelete
    \/ Cancel
    \/ \E e \in {Smooth, Rejected} :
          DeleteAnswered(e)
    \/ interval
    \/ Refresh
    \/ \E k \in 1..MaxInFlight : LoadReturns(k)
    \/ HistoryEffect
    \/ \E i \in Ids : AdapterAccepts(i)
    \/ \E i \in Ids : AdapterSucceeds(i)
    \/ \E i \in Ids, d \in BOOLEAN : AdapterFails(i, d)

SpecDelete == InitPage /\ [][NextDelete]_vars

\* ================================================================== routes
\* App.jsx, AppRoutes: what is rendered at a path for the current user.

Paths ==
    {"/", "/login", "/dashboard", "/workflow-monitor", "/invoice-manager",
     "/risk-analysis/:analysisId", "/proposal/:proposalId", "/elsewhere"}

ProtectedPages ==
    {"DashboardPage", "WorkflowMonitorPage", "InvoiceManagerPage",
     "RiskAnalysisReportPage", "ProposalReportPage"}

Render(component) == [navigate |-> FALSE, to |-> "", render |-> component]

Navigate(to) == [navigate |-> TRUE, to |-> to, render |-> ""]

\* Variant: the proposal report is rendered whoever asks.
Element_openProposal(path, currentUser) ==
    CASE path = "/" ->
            IF currentUser # NoUser THEN Render("DashboardPage") ELSE Render("SignUp")
      [] path = "/login" ->
            IF currentUser # NoUser THEN Navigate("/dashboard") ELSE Render("SignIn")
      [] path = "/dashboard" -> Navigate("/")
      [] path = "/workflow-monitor" ->
            IF currentUser # NoUser THEN Render("WorkflowMonitorPage")
            ELSE Navigate("/login")
      [] path = "/invoice-manager" ->
            IF currentUser # NoUser THEN Render("InvoiceManagerPage")
            ELSE Navigate("/login")
      [] path = "/risk-analysis/:analysisId" ->
            IF currentUser # NoUser THEN Render("RiskAnalysisReportPage")
            ELSE Navigate("/login")
      [] path = "/proposal/:proposalId" -> Render("ProposalReportPage")
      [] OTHER -> Render("nothing")

\* The element of the route that matches the path; no route, nothing rendered.
Element(path, currentUser) ==
    CASE path = "/" ->
            IF currentUser # NoUser THEN Render("DashboardPage") ELSE Render("SignUp")
      [] path = "/login" ->
            IF currentUser # NoUser THEN Navigate("/dashboard") ELSE Render("SignIn")
      [] path = "/dashboard" -> Navigate("/")
      [] path = "/workflow-monitor" ->
            IF currentUser # NoUser THEN Render("WorkflowMonitorPage")
            ELSE Navigate("/login")
      [] path = "/invoice-manager" ->
            IF currentUser # NoUser THEN Render("InvoiceManagerPage")
            ELSE Navigate("/login")
      [] path = "/risk-analysis/:analysisId" ->
            IF currentUser # NoUser THEN Render("RiskAnalysisReportPage")
            ELSE Navigate("/login")
      [] path = "/proposal/:proposalId" ->
            IF currentUser # NoUser THEN Render("ProposalReportPage")
            ELSE Navigate("/login")
      [] OTHER -> Render("nothing")

\* <Navigate replace> is followed until a component is rendered.
RECURSIVE Landing(_, _)
Landing(path, currentUser) ==
    LET element == Element(path, currentUser)
    IN  IF element.navigate THEN Landing(element.to, currentUser)
        ELSE [path |-> path, element |-> element.render]

Elsewhere == UNCHANGED <<jobs, versions, nextId, linked, last, page, now, dash>>

\* The last entry's route is rendered again; a redirect replaces the entry.
Rerendered(currentUser, entries, asked) ==
    LET at == Landing(entries[Len(entries)], currentUser)
    IN  [open |-> TRUE, currentUser |-> currentUser,
         entries |-> [entries EXCEPT ![Len(entries)] = at.path],
         asked |-> asked, element |-> at.element]

\* The user opens a path: a link, or the address bar.
Visit(path) ==
    /\ route.open
    /\ Len(route.entries) < MaxEntries
    /\ route' = Rerendered(route.currentUser, Append(route.entries, path), path)
    /\ Elsewhere

\* The browser's back button.
GoBack ==
    /\ route.open
    /\ Len(route.entries) > 1
    /\ route' = Rerendered(route.currentUser,
                           SubSeq(route.entries, 1, Len(route.entries) - 1),
                           route.entries[Len(route.entries) - 1])
    /\ Elsewhere

\* onAuthStateChanged: currentUser changes and AppRoutes renders again.
AuthStateChanged(user) ==
    /\ route.open
    /\ user # route.currentUser
    /\ (user = NoUser) # (route.currentUser = NoUser)
    /\ route' = Rerendered(user, route.entries, route.asked)
    /\ Elsewhere

InitRoutes ==
    /\ jobs = <<>>
    /\ versions = <<>>
    /\ nextId = 1
    /\ linked = 0
    /\ last = Idle
    /\ page = Closed
    /\ now = 0
    /\ dash = Unmounted
    /\ \E path \in Paths, user \in Users : route = Rerendered(user, <<path>>, path)

NextRoutes ==
    \/ \E path \in Paths : Visit(path)
    \/ GoBack
    \/ \E user \in Users : AuthStateChanged(user)

SpecRoutes == InitRoutes /\ [][NextRoutes]_vars

\* =============================================================== dashboard
\* DashboardPage: the two lists and their delete buttons.

Offstage == UNCHANGED <<linked, last, page, now, route>>

Quiet == UNCHANGED <<jobs, versions, nextId>>

\* The list the active tab displays.
Displayed(d) == IF d.activeTab = "risk" THEN d.analyses ELSE d.proposals

Elements(seq) == {seq[k] : k \in 1..Len(seq)}

\* items.filter(a => a._id !== id)
Filtered(items, id) == SelectSeq(items, LAMBDA a : a # id)

\* The inner tabs; the effect of the new tab loads its list.
setActiveTab(tab) ==
    /\ dash.open
    /\ dash.activeTab # tab
    /\ dash' = [dash EXCEPT !.activeTab = tab, !.due = TRUE]
    /\ Quiet /\ Offstage

\* loadAnalyses / loadProposals, from the effect of the active tab.
loadList ==
    /\ dash.open /\ dash.due
    /\ LET r == apiRequest(Store, Viewer.user, Viewer.env,
                           IF dash.activeTab = "risk" THEN getRiskAnalyses
                           ELSE getProposals, 0)
       IN  dash' = IF r.threw THEN [dash EXCEPT !.due = FALSE]
                   ELSE IF dash.activeTab = "risk"
                   THEN [dash EXCEPT !.due = FALSE, !.analyses = r.value.ids]
                   ELSE [dash EXCEPT !.due = FALSE, !.proposals = r.value.ids]
    /\ Quiet /\ Offstage

\* handleDeleteAnalysis, confirmed, up to its await: the handler holds the
\* analyses of the render it was created in.
handleDeleteAnalysis(analysisId, env) ==
    /\ dash.open /\ dash.activeTab = "risk"
    /\ analysisId \in Elements(dash.analyses)
    /\ dash.deletingId # analysisId
    /\ Len(dash.handlers) < MaxDeletes
    /\ dash' = [dash EXCEPT
                   !.deletingId = analysisId,
                   !.handlers = Append(@, [kind |-> "risk_analysis", id |-> analysisId,
                                           list |-> dash.analyses, env |-> env])]
    /\ Quiet /\ Offstage

\* handleDeleteProposal, confirmed, up to its await.
handleDeleteProposal(proposalId, env) ==
    /\ dash.open /\ dash.activeTab = "proposal"
    /\ proposalId \in Elements(dash.proposals)
    /\ dash.deletingProposalId # proposalId
    /\ Len(dash.handlers) < MaxDeletes
    /\ dash' = [dash EXCEPT
                   !.deletingProposalId = proposalId,
                   !.handlers = Append(@, [kind |-> "proposal", id |-> proposalId,
                                           list |-> dash.proposals, env |-> env])]
    /\ Quiet /\ Offstage

\* A delete handler's request is answered: on success the handler's list
\* without the item is set, on failure the handler alerts; then its finally.
DeleteReturns(k) ==
    /\ dash.open
    /\ k \in 1..Len(dash.handlers)
    /\ LET h == dash.handlers[k]
           r == apiRequest(Store, Viewer.user, h.env,
                           IF h.kind = "proposal" THEN deleteProposal(h.id)
                           ELSE deleteRiskAnalysis(h.id), 0)
           rest == [dash EXCEPT !.handlers = Without(@, k)]
       IN  /\ jobs' = r.store.jobs
           /\ versions' = r.store.versions
           /\ nextId' = r.store.nextId
           /\ dash' = IF h.kind = "proposal"
                      THEN [rest EXCEPT
                               !.deletingProposalId = NoId,
                               !.proposals = IF r.threw THEN @
                                             ELSE Filtered(h.list, h.id)]
                      ELSE [rest EXCEPT
                               !.deletingId = NoId,
                               !.analyses = IF r.threw THEN @
                                            ELSE Filtered(h.list, h.id)]
    /\ Offstage

\* The viewer's jobs, created earlier, one after the other.
RECURSIVE Made(_, _)
Made(store, kinds) ==
    IF kinds = <<>> THEN store
    ELSE Made(create(store, Viewer.user, Head(kinds), FormData("acme", "chat1")).store,
              Tail(kinds))

\* The dashboard as mounted: empty lists, the risk tab, its effect due.
InitDash ==
    /\ \E kinds \in [1..(MaxCreated + MaxLinked) -> Kinds] :
          LET made == Made([jobs |-> <<>>, versions |-> <<>>, nextId |-> 1, now |-> 0],
                           kinds)
          IN  /\ jobs = made.jobs
              /\ versions = made.versions
              /\ nextId = made.nextId
    /\ linked = 0
    /\ last = Idle
    /\ page = Closed
    /\ now = 0
    /\ route = Nowhere
    /\ dash = [open |-> TRUE, activeTab |-> "risk", due |-> TRUE,
               analyses |-> <<>>, proposals |-> <<>>,
               deletingId |-> NoId, deletingProposalId |-> NoId,
               handlers |-> <<>>]

NextDash ==
    \/ \E tab \in {"risk", "proposal"} : setActiveTab(tab)
    \/ loadList
    \/ \E i \in Ids, e \in {Smooth, Rejected} : handleDeleteAnalysis(i, e)
    \/ \E i \in Ids, e \in {Smooth, Rejected} : handleDeleteProposal(i, e)
    \/ \E k \in 1..MaxDeletes : DeleteReturns(k)

SpecDash == InitDash /\ [][NextDash]_vars

\* =================================================================== claims
Reached(r) == r.status \notin {0, 401}      \* the call got as far as a route

Call(c, req) == apiRequest(Store, c.user, c.env, req, 0)

\* The same caller's next call, on the store the first one left.
Then(r, c, req) == apiRequest(r.store, c.user, Smooth, req, 0)

Deleted == { id \in 1..(nextId - 1) : id \notin DOMAIN jobs }

Backward(from, to) ==
    \/ from = "processing" /\ to = "pending"
    \/ from \in {"completed", "failed"} /\ to # from

C3_RestoreThenHistory ==
    \A c \in Callers, id \in ProbeIds, i \in Indexes :
        LET r == Call(c, restoreProposalVersion(id, i))
            h == Then(r, c, getProposalHistory(id))
        IN  (~r.threw /\ id \in DOMAIN versions /\ 0 <= i /\ i < Len(versions[id])) =>
               /\ ~h.threw
               /\ h.value.current_version_index = i
               /\ h.value.history = versions[id]

C3_Witness ==
    /\ last = [fn |-> "restoreProposalVersion", outcome |-> "ok"]
    /\ \E id \in DOMAIN versions :
          /\ Len(versions[id]) = 2
          /\ jobs[id].pointer = 0

\* C4: a successful append (save) of text t to a proposal whose history is h
\* with pointer p leaves the history h[0..p] followed by t, of length p + 2,
\* with the pointer on the new tail.
C4_AppendTruncates ==
    \A c \in Callers, id \in ProbeIds, t \in Edits :
        LET r == Call(c, saveEditedProposal(id, t))
        IN  (~r.threw /\ id \in DOMAIN versions) =>
               LET p == jobs[id].pointer
                   h == r.store.versions[id]
               IN  /\ 0 - 1 <= p /\ p < Len(versions[id])
                   /\ h = SubSeq(versions[id], 1, p + 1) \o <<t>>
                   /\ Len(h) = p + 2
                   /\ r.store.jobs[id].pointer = p + 1

\* appending A, B, restoring index 0, and appending C has left [A, C]
C4_Witness ==
    /\ last = [fn |-> "saveEditedProposal", outcome |-> "ok"]
    /\ \E id \in DOMAIN versions :
          /\ versions[id] = <<"A", "C">>
          /\ jobs[id].pointer = 1

\* C5: restore with an index below 0 or at or past the history length, on a
\* proposal the caller owns, fails with OutOfRangeError and changes nothing.
C5_RestoreOutOfRange ==
    \A c \in Callers, id \in ProbeIds, i \in Indexes :
        LET r == Call(c, restoreProposalVersion(id, i))
        IN  (/\ Reached(r)
             /\ Visible(Store, c.user, "proposal", id)
             /\ (i < 0 \/ i >= Len(versions[id]))) =>
               /\ r.threw
               /\ r.message = "OutOfRangeError"
               /\ r.store = Store

C5_Witness ==
    /\ last = [fn |-> "restoreProposalVersion", outcome |-> "OutOfRangeError"]
    /\ \E id \in DOMAIN versions : Len(versions[id]) > 0

\* What history, get, restore and append answer on a proposal id.
Probes(id) ==
    {getProposalHistory(id), getProposal(id)}
        \cup {restoreProposalVersion(id, i) : i \in Indexes}
        \cup {saveEditedProposal(id, t) : t \in Edits}

Gone(store, c, id) ==
    /\ id \notin DOMAIN store.jobs
    /\ id \notin DOMAIN store.versions
    /\ \A req \in Probes(id) :
          LET r == apiRequest(store, c.user, c.env, req, 0)
          IN  /\ r.threw
              /\ Reached(r) => r.message = "NotFoundError"
              /\ r.store = store

\* C8: once a delete of a proposal has succeeded, no version entry of that id
\* remains, and every later history, get, restore or append on the id fails
\* with NotFoundError, for every caller.
C8_DeleteCascades ==
    /\ \A c \in Callers, id \in ProbeIds :
          LET r == Call(c, deleteProposal(id))
          IN  ~r.threw => \A d \in Callers : Gone(r.store, d, id)
    /\ \A id \in Deleted, d \in Callers : Gone(Store, d, id)

C8_Witness ==
    /\ last = [fn |-> "deleteProposal", outcome |-> "ok"]
    /\ \E id \in Deleted : TRUE
    /\ \E id \in DOMAIN jobs : jobs[id].kind = "risk_analysis"

GenerateCalls(id) ==
    {[kind |-> "proposal", req |-> generateRiskReportFromProposal(id)],
     [kind |-> "risk_analysis", req |-> generateProposalFromRiskAnalysis(id)]}

\* C6: cross-generation from a source the caller owns that is not completed,
\* or whose input is empty, fails with PreconditionError and creates no job;
\* and no job in the store was cross-generated from a source that was not
\* completed when the request was made.
C6_CrossGenerationPrecondition ==
    /\ \A c \in Callers, id \in ProbeIds : \A g \in GenerateCalls(id) :
          LET r == Call(c, g.req)
          IN  (/\ Reached(r)
               /\ Visible(Store, c.user, g.kind, id)
               /\ (jobs[id].status # "completed" \/ jobs[id].input_data = "")) =>
                 /\ r.threw
                 /\ r.message = "PreconditionError"
                 /\ r.store = Store
    /\ \A id \in DOMAIN jobs : jobs[id].seeded \in {"none", "completed"}

C6_Witness ==
    /\ last.fn \in {"generateRiskReportFromProposal", "generateProposalFromRiskAnalysis"}
    /\ last.outcome = "PreconditionError"
    /\ \E id \in DOMAIN jobs : jobs[id].status # "completed" \/ jobs[id].input_data = ""

\* C7: a successful cross-generation creates exactly one job: of the opposite
\* kind, under an id no job has had, pending, without results, owned by the
\* source's owner and carrying the source's input_data; every job that was
\* there, the source included, and every version history is as before.
C7_CrossGenerationCreatesOne ==
    \A c \in Callers, id \in ProbeIds : \A g \in GenerateCalls(id) :
        LET r == Call(c, g.req)
        IN  ~r.threw =>
               LET new == r.value.id
               IN  /\ id \in DOMAIN jobs
                   /\ new >= nextId
                   /\ DOMAIN r.store.jobs = DOMAIN jobs \cup {new}
                   /\ \A j \in DOMAIN jobs : r.store.jobs[j] = jobs[j]
                   /\ \A j \in DOMAIN versions : r.store.versions[j] = versions[j]
                   /\ r.store.jobs[new].kind = Opposite(jobs[id].kind)
                   /\ r.store.jobs[new].status = "pending"
                   /\ r.store.jobs[new].results = NoResults
                   /\ r.store.jobs[new].owner = jobs[id].owner
                   /\ r.store.jobs[new].input_data = jobs[id].input_data
                   /\ r.value.job = r.store.jobs[new]

C7_Witness ==
    /\ last.fn \in {"generateRiskReportFromProposal", "generateProposalFromRiskAnalysis"}
    /\ last.outcome = "ok"
    /\ \E id \in DOMAIN jobs, new \in DOMAIN jobs :
          /\ jobs[new].seeded = "completed"
          /\ jobs[new].status = "pending"
          /\ jobs[new].kind = Opposite(jobs[id].kind)
          /\ jobs[new].input_data = jobs[id].input_data
          /\ jobs[id].status = "completed"

DeleteCalls(id) ==
    {[kind |-> "proposal", req |-> deleteProposal(id)],
     [kind |-> "risk_analysis", req |-> deleteRiskAnalysis(id)]}

\* C9: a delete of an id that does not exist, was deleted, or is another
\* owner's fails and leaves the store as it was; in particular a second delete
\* of the same id fails.
C9_DeleteOfAbsentFails ==
    \A c \in Callers, id \in ProbeIds : \A d \in DeleteCalls(id) :
        LET r == Call(c, d.req)
            again == Then(r, c, d.req)
        IN  /\ ~Visible(Store, c.user, d.kind, id) =>
                 /\ r.threw
                 /\ r.store = Store
                 /\ Reached(r) => r.message = "NotFoundError"
            /\ ~r.threw =>
                 /\ again.threw
                 /\ again.message = "NotFoundError"
                 /\ again.store = r.store

C9_Witness ==
    /\ last.fn \in {"deleteProposal", "deleteRiskAnalysis"}
    /\ last.outcome = "NotFoundError"
    /\ Deleted # {}

CreateCalls(formData) == {createRiskAnalysis(formData), createProposal(formData)}

ReadOf(id) ==
    IF jobs[id].kind = "proposal" THEN getProposal(id) ELSE getRiskAnalysis(id)

\* C10: a create with a name and a file returns, whenever it reaches its
\* route, a job in pending without results, which is the job then stored; an
\* update of a completed proposal returns success too; and a job the adapter
\* has failed is reported as failed by its owner's read, which does not throw.
C10_CreateReturnsPending ==
    /\ \A c \in Callers, n \in Names \ {""}, f \in Inputs :
          \A req \in CreateCalls(FormData(n, f)) :
             LET r == Call(c, req)
             IN  Reached(r) =>
                    /\ ~r.threw
                    /\ r.value.job.status = "pending"
                    /\ r.value.job.results = NoResults
                    /\ r.value.id \notin DOMAIN jobs
                    /\ r.store.jobs[r.value.id] = r.value.job
    /\ \A c \in Callers, id \in DOMAIN jobs, f \in {NoFile, "chat2"} :
          LET r == Call(c, updateProposal(id, "shorter", f))
          IN  (/\ Reached(r)
               /\ Visible(Store, c.user, "proposal", id)
               /\ jobs[id].status = "completed") => ~r.threw
    /\ \A id \in DOMAIN jobs :
          LET r == apiRequest(Store, jobs[id].owner, Smooth, ReadOf(id), 0)
          IN  jobs[id].status = "failed" =>
                 /\ ~r.threw
                 /\ r.value.job.status = "failed"

C10_Witness ==
    /\ last.fn \in {"getProposal", "getRiskAnalysis"}
    /\ last.outcome = "ok"
    /\ \E id \in DOMAIN jobs : jobs[id].status = "failed" /\ jobs[id].seeded = "none"

TimerRead ==
    /\ Len(page'.fetches) = Len(page.fetches) + 1
    /\ page'.fetches[Len(page'.fetches)].cause = "timer"

\* C12: the polling interval of a report page runs exactly while the status
\* the page last loaded is pending or processing, and a timer-driven read is
\* sent only in such a state: none once the loaded status is completed or
\* failed.
C12_PollingStopsAtTerminal ==
    /\ [](page.timer <=> page.proposal.status \in {"pending", "processing"})
    /\ [][TimerRead => page.proposal.status \in {"pending", "processing"}]_vars

\* a terminal status is on the page, the interval is off, and a read the
\* interval sent before is still on its way
C12_Witness ==
    /\ page.open
    /\ page.proposal.status \in {"completed", "failed"}
    /\ ~page.timer
    /\ \E k \in 1..Len(page.fetches) : page.fetches[k].cause = "timer"

\* C13 as stated: in every state of the proposal page, undo is enabled iff
\* the pointer is above 0, and redo iff the pointer is below length - 1.
C13_EnabledIffPointer ==
    (page.open /\ page.kind = "proposal") =>
       /\ UndoEnabled(page) <=> page.currentVersionIndex > 0
       /\ RedoEnabled(page) <=>
             page.currentVersionIndex < page.proposalHistoryLength - 1

\* C13 amended: while the version controls are shown (a completed proposal
\* with results is loaded and no load is under way) and no undo or redo is in
\* flight, undo is enabled iff the pointer the page last loaded is above 0 and
\* redo iff it is below the loaded length - 1; in every other state neither
\* control is enabled.
C13_EnabledIffPointerWhenIdle ==
    (page.open /\ page.kind = "proposal") =>
       /\ UndoEnabled(page) <=>
             /\ Shown(page) /\ ~page.undoRedoLoading
             /\ page.currentVersionIndex > 0
       /\ RedoEnabled(page) <=>
             /\ Shown(page) /\ ~page.undoRedoLoading
             /\ page.currentVersionIndex < page.proposalHistoryLength - 1

\* an undo is in flight on a shown page whose pointer is above 0
C13_Witness ==
    /\ Shown(page)
    /\ page.undoRedoLoading
    /\ page.currentVersionIndex > 0
    /\ page.proposalHistoryLength > page.currentVersionIndex

\* The store after the viewer's restore requests for the indexes of path, in
\* order; ok tells whether all of them succeeded.
RECURSIVE Walk(_, _, _)
Walk(store, id, path) ==
    IF path = <<>> THEN [store |-> store, ok |-> TRUE]
    ELSE LET r == apiRequest(store, Viewer.user, Viewer.env,
                             restoreProposalVersion(id, Head(path)), 0)
         IN  IF r.threw THEN [store |-> r.store, ok |-> FALSE]
             ELSE Walk(r.store, id, Tail(path))

\* Undo from p down to q, one index at a time, and redo back up to p.
Undos(p, q) == [k \in 1..(p - q) |-> p - k]

Redos(p, q) == [k \in 1..(p - q) |-> q + k]

\* C14: for a proposal with pointer p > 0, undoing down to any q < p leaves
\* the stored sequence whole, and redoing back up to p succeeds and leaves the
\* pointer at p, the stored sequence as it was and the live content on entry
\* p, which is the content a completed proposal had before the undo.
C14_UndoKeepsHistory ==
    \A id \in DOMAIN versions :
        LET p == jobs[id].pointer
        IN  \A q \in 0..(p - 1) :
               LET down == Walk(Store, id, Undos(p, q))
                   back == Walk(down.store, id, Redos(p, q))
               IN  (p > 0 /\ jobs[id].owner = Viewer.user) =>
                      /\ down.ok
                      /\ down.store.versions = versions
                      /\ down.store.jobs[id].pointer = q
                      /\ down.store.jobs[id].results = versions[id][q + 1]
                      /\ back.ok
                      /\ back.store.versions = versions
                      /\ back.store.jobs =
                            [jobs EXCEPT ![id].results = versions[id][p + 1]]
                      /\ jobs[id].status = "completed" =>
                            back.store.jobs = jobs

\* the page's redo to index 1 of 2 entries has just been answered: the entry
\* an earlier undo had stepped back from was still stored
C14_Witness ==
    /\ page.open /\ page.kind = "proposal"
    /\ page.pc = "reload" /\ page.undoRedoLoading
    /\ page.targetIndex = 1
    /\ page.currentVersionIndex = 0
    /\ page.id \in DOMAIN versions
    /\ Len(versions[page.id]) = 2
    /\ jobs[page.id].pointer = 1
    /\ jobs[page.id].status = "completed"

\* C15: restore is idempotent: whenever restore(id, i) succeeds, the same
\* request made again succeeds too and leaves the store (live content,
\* pointer, stored sequence, every other field and job) exactly as the first
\* one left it, and returns the same job.
C15_RestoreIdempotent ==
    \A c \in Callers, id \in ProbeIds, i \in Indexes :
        LET once == Call(c, restoreProposalVersion(id, i))
            twice == Then(once, c, restoreProposalVersion(id, i))
        IN  ~once.threw =>
               /\ ~twice.threw
               /\ twice.store = once.store
               /\ twice.value = once.value

\* a restore to the first of two entries has just succeeded and the live
\* content is that entry
C15_Witness ==
    /\ last = [fn |-> "restoreProposalVersion", outcome |-> "ok"]
    /\ \E id \in DOMAIN versions :
          /\ Len(versions[id]) = 2
          /\ jobs[id].pointer = 0
          /\ jobs[id].results = versions[id][1]
          /\ versions[id][1] # versions[id][2]

\* Every request the client can make about a job id.
Requests(id) ==
    {getProposal(id), getRiskAnalysis(id), getProposalHistory(id),
     deleteProposal(id), deleteRiskAnalysis(id),
     generateRiskReportFromProposal(id), generateProposalFromRiskAnalysis(id)}
        \cup {updateProposal(id, "shorter", f) : f \in {NoFile, "chat2"}}
        \cup {restoreProposalVersion(id, i) : i \in Indexes}
        \cup {saveEditedProposal(id, t) : t \in Edits}

Requesters == {c \in Callers : c.env = Smooth}

\* C16: owner isolation: whatever a signed-in owner or nobody requests about
\* any id, no job and no version history of another owner is changed or
\* removed, nothing of another owner's job is returned (a request about it
\* fails), and a job the request creates belongs to the requester and to the
\* owner of its source.
C16_OwnerIsolation ==
    \A c \in Requesters, id \in ProbeIds : \A req \in Requests(id) :
        LET r == Call(c, req)
        IN  /\ \A j \in DOMAIN jobs :
                  jobs[j].owner # c.user =>
                     /\ j \in DOMAIN r.store.jobs
                     /\ r.store.jobs[j] = jobs[j]
                     /\ j \in DOMAIN versions =>
                           /\ j \in DOMAIN r.store.versions
                           /\ r.store.versions[j] = versions[j]
            /\ (id \in DOMAIN jobs /\ jobs[id].owner # c.user) =>
                  /\ r.threw
                  /\ r.value = NoJson
            /\ (~r.threw /\ r.value # NoJson) =>
                  /\ id \in DOMAIN jobs
                  /\ jobs[id].owner = c.user
                  /\ r.value.tag = "job" => r.value.job.owner = c.user
            /\ \A j \in DOMAIN r.store.jobs \ DOMAIN jobs :
                  /\ r.store.jobs[j].owner = c.user
                  /\ id \in DOMAIN jobs
                  /\ r.store.jobs[j].owner = jobs[id].owner

\* a request has just been refused while the store holds a proposal of u2 and
\* the job cross-generated from it, which is u2's too
C16_Witness ==
    /\ last.outcome = "NotFoundError"
    /\ \E id \in DOMAIN jobs, new \in DOMAIN jobs :
          /\ jobs[id].owner = "u2"
          /\ jobs[id].seeded = "none"
          /\ jobs[new].seeded = "completed"
          /\ jobs[new].owner = "u2"

\* C17: no step changes the input_data of a job that exists before and after
\* it: not the adapter's transitions, not an update with change instructions
\* or with a new source file, not a save, a restore or a cross-generation.
C17_InputDataFixed ==
    [][\A id \in DOMAIN jobs \cap DOMAIN jobs' :
          jobs'[id].input_data = jobs[id].input_data]_vars

\* an update has just been accepted for a proposal that has been edited, and
\* its input is the one it was created with
C17_Witness ==
    /\ last = [fn |-> "updateProposal", outcome |-> "ok"]
    /\ \E id \in DOMAIN versions :
          /\ jobs[id].regen
          /\ Len(versions[id]) > 0
          /\ jobs[id].input_data = "chat1"

\* C18: an accepted update of a completed proposal starts a generation and
\* leaves the version history and the pointer as they are; when that
\* generation succeeds, the entries up to the pointer are followed by exactly
\* one new entry, the generated content, and the pointer is on it; when it
\* fails, the history and the pointer are left unchanged.
C18_UpdateAppendsOnSuccess ==
    [][\A id \in DOMAIN versions \cap DOMAIN versions' :
          LET p == jobs[id].pointer
          IN  /\ (last' = [fn |-> "updateProposal", outcome |-> "ok"]
                    /\ jobs[id].status = "completed") =>
                    /\ jobs'[id].regen
                    /\ versions'[id] = versions[id]
                    /\ jobs'[id].pointer = p
              /\ (jobs[id].regen /\ jobs[id].status = "processing"
                    /\ jobs'[id].status = "completed") =>
                    /\ versions'[id] =
                          SubSeq(versions[id], 1, p + 1) \o <<jobs'[id].results>>
                    /\ jobs'[id].results = Generated
                    /\ jobs'[id].pointer = p + 1
                    /\ ~jobs'[id].regen
              /\ (jobs[id].regen /\ jobs[id].status = "processing"
                    /\ jobs'[id].status = "failed") =>
                    /\ versions'[id] = versions[id]
                    /\ jobs'[id].pointer = p]_vars

\* the generation an update started has succeeded on a proposal that held one
\* saved entry: the generated content is the second entry and the current one
C18_Witness ==
    \E id \in DOMAIN versions :
        /\ jobs[id].status = "completed"
        /\ ~jobs[id].regen
        /\ versions[id] = <<"A", Generated>>
        /\ jobs[id].pointer = 1
        /\ jobs[id].results = Generated

\* ---------------------------------------------------------------------- C19
\* status, results, pointer or version log of the job differ across the step
Mutated(id) ==
    \/ jobs'[id].status # jobs[id].status
    \/ jobs'[id].results # jobs[id].results
    \/ jobs'[id].pointer # jobs[id].pointer
    \/ id \in DOMAIN versions /\ versions'[id] # versions[id]

\* C19: every status transition and every content mutation of a job (results
\* set, version appended, restore, save) refreshes the job's updated_at to the
\* time of the write, which is never earlier than its previous value;
\* created_at is the time of creation and never changes afterwards.
C19_UpdatedAtRefreshed ==
    /\ [](\A id \in DOMAIN jobs :
             /\ jobs[id].created_at <= jobs[id].updated_at
             /\ jobs[id].updated_at <= now)
    /\ [][/\ \A id \in DOMAIN jobs \cap DOMAIN jobs' :
                /\ jobs'[id].created_at = jobs[id].created_at
                /\ jobs'[id].updated_at >= jobs[id].updated_at
                /\ Mutated(id) => jobs'[id].updated_at = now
          /\ \A id \in DOMAIN jobs' \ DOMAIN jobs :
                /\ jobs'[id].created_at = now
                /\ jobs'[id].updated_at = now]_vars

\* a proposal created at time 0 was completed, then edited at time 2, and the
\* risk report generated from it in between was created at time 1
C19_Witness ==
    /\ last.fn = "saveEditedProposal" /\ last.outcome = "ok"
    /\ now = 2
    /\ 2 \in DOMAIN jobs
    /\ jobs[1].created_at = 0 /\ jobs[1].updated_at = 2
    /\ jobs[1].status = "completed" /\ versions[1] = <<"A">>
    /\ jobs[2].created_at = 1

\* ---------------------------------------------------------------------- C20
Terminal(id) == id \in DOMAIN jobs /\ jobs[id].status \in {"completed", "failed"}

Sessions == {c \in Callers : c.user # NoUser}

AnyRequest(id) == Requests(id) \cup CreateCalls(FormData("acme", "chat1"))

\* C22: when nobody is signed in, or the SDK yields no ID token, apiRequest
\* throws "Authentication required" without sending any HTTP request, returns
\* nothing, and leaves every job and version history as it was; and whenever
\* it throws that error the store is unchanged.
C22_NoTokenNoRequest ==
    \A c \in Callers, id \in ProbeIds : \A req \in AnyRequest(id) :
        LET r == Call(c, req)
        IN  /\ (c.user = NoUser \/ ~c.env.sdk[1]) =>
                  /\ r.threw
                  /\ r.message = "Authentication required"
                  /\ r.fetches = 0
                  /\ r.attempts = <<>>
                  /\ r.value = NoJson
                  /\ r.store = Store
            /\ (r.threw /\ r.message = "Authentication required") => r.store = Store

\* a call has just ended in apiRequest's own error while the store holds a job
C22_Witness ==
    /\ last = [fn |-> "apiRequest", outcome |-> "Authentication required"]
    /\ jobs # <<>>

\* ---------------------------------------------------------------------- C23
\* C23: while currentUser is null, no path, followed through its redirects,
\* renders the dashboard, the workflow monitor, the invoice manager or a report
\* page; every path of the route table renders sign-up or sign-in instead; and
\* a signed-in user who opens /login lands on / with the dashboard rendered.
C23_ProtectedRoutes ==
    /\ \A path \in Paths :
          /\ Landing(path, NoUser).element \notin ProtectedPages
          /\ path # "/elsewhere" => Landing(path, NoUser).element \in {"SignUp", "SignIn"}
    /\ \A user \in Owners :
          Landing("/login", user) = [path |-> "/", element |-> "DashboardPage"]
    /\ (route.open /\ route.currentUser = NoUser) =>
          route.element \notin ProtectedPages
    /\ (route.open /\ route.currentUser # NoUser /\ route.asked = "/login") =>
          route.element = "DashboardPage"

\* the proposal report was asked for after the dashboard's path, nobody is
\* signed in, and sign-in is shown at /login in its place
C23_Witness ==
    /\ route.open
    /\ route.currentUser = NoUser
    /\ route.asked = "/proposal/:proposalId"
    /\ route.entries = <<"/", "/login">>
    /\ route.element = "SignIn"

\* ---------------------------------------------------------------------- C24
\* C24 as stated: when the first attempt of apiRequest is answered 401 and the
\* SDK yields a token again, a second request is sent and the token it carries
\* was obtained with forceRefresh.
C24_RetryWithFreshToken ==
    \A c \in Callers, id \in ProbeIds : \A req \in AnyRequest(id) :
        LET r == Call(c, req)
        IN  (r.attempts # <<>> /\ r.attempts[1].status = 401 /\ c.env.sdk[2]) =>
               /\ Len(r.attempts) = 2
               /\ r.attempts[2].token.fresh

\* ---------------------------------------------------------------------- C25
\* C25: a call of apiRequest sends at most two HTTP requests; it sends a second
\* one only when the first was answered 401; and an answer that is not OK to
\* the last request sent (a 401 to the second, any other error to either) is
\* thrown as an error carrying that status, with nothing returned.
C25_AtMostTwoRequests ==
    \A c \in Callers, id \in ProbeIds : \A req \in AnyRequest(id) :
        LET r == Call(c, req)
            n == Len(r.attempts)
        IN  /\ n <= 2
            /\ r.fetches = n
            /\ n = 2 => r.attempts[1].status = 401
            /\ (n = 1 /\ r.attempts[1].status = 401) => (r.threw /\ ~c.env.sdk[2])
            /\ (n > 0 /\ r.attempts[n].status \notin {200, 204}
                  /\ (n = 2 \/ r.attempts[n].status # 401)) =>
                     /\ r.threw
                     /\ r.status = r.attempts[n].status
                     /\ r.value = NoJson

\* a call has just been answered 401 twice and ended in that error
C25_Witness ==
    /\ last = [fn |-> "apiRequest", outcome |-> "AuthenticationError"]
    /\ jobs # <<>>

C27_ShownStatusStaysTerminal ==
    [][(/\ page.open
        /\ page.proposal.status \in {"completed", "failed"}
        /\ Len(page'.fetches) < Len(page.fetches)) =>
            page'.proposal.status \in {"completed", "failed"}]_vars

\* ---------------------------------------------------------------------- C28
\* C28: when the undo or the redo handler of the proposal page goes on to
\* send a restore request, the history the page holds is not empty and the
\* target index is the page's pointer minus one or plus one and lies within
\* 0 .. length - 1 of that history; the index sent is that target.
C28_RestoreTargets ==
    /\ [][(page.open /\ page.pc = "idle" /\ page'.pc = "restore") =>
             /\ page.proposalHistoryLength > 0
             /\ page'.targetIndex \in {page.currentVersionIndex - 1,
                                       page.currentVersionIndex + 1}
             /\ 0 <= page'.targetIndex
             /\ page'.targetIndex < page.proposalHistoryLength]_vars
    /\ [][(page.open /\ page.pc = "restore" /\ page'.pc = "restore") =>
             page'.targetIndex = page.targetIndex]_vars

\* a redo from the first of two entries is on its way
C28_Witness ==
    /\ page.open /\ page.pc = "restore"
    /\ page.proposalHistoryLength = 2
    /\ page.currentVersionIndex = 0
    /\ page.targetIndex = 1

\* ---------------------------------------------------------------------- C29
\* C29 as stated: once no delete handler of the dashboard is pending, no item
\* whose delete succeeded is in the displayed list; and when a delete request
\* fails (the handler ends and no job is gone) the lists stay as they were.
C29_DeletedLeavesList ==
    /\ []((dash.open /\ dash.handlers = <<>>) =>
             \A id \in Elements(Displayed(dash)) : id \in DOMAIN jobs)
    /\ [][(/\ dash.open
           /\ Len(dash'.handlers) < Len(dash.handlers)
           /\ jobs' = jobs) =>
              /\ dash'.analyses = dash.analyses
              /\ dash'.proposals = dash.proposals]_vars

\* ---------------------------------------------------------------------- C30
\* C30: on a report page the delete request goes out only as the second step:
\* a step that sets showDeleteConfirm sends nothing and changes no job, the
\* handler reaches its request only from a state where showDeleteConfirm is
\* true, a job leaves the store only while the handler awaits that request,
\* and hiding the confirmation again (Cancel) changes no job and sends nothing.
DeleteSent == page.open /\ ~page.deleting /\ page'.open /\ page'.deleting

C30_TwoStepDelete ==
    [][/\ DeleteSent => page.showDeleteConfirm
       /\ (page.open /\ page'.open /\ ~page.showDeleteConfirm /\ page'.showDeleteConfirm) =>
             (~DeleteSent /\ jobs' = jobs)
       /\ (DOMAIN jobs' # DOMAIN jobs) => (page.open /\ page.deleting)
       /\ (page.open /\ page'.open /\ page.showDeleteConfirm /\ ~page'.showDeleteConfirm
             /\ page'.deleting = page.deleting) =>
             (jobs' = jobs /\ versions' = versions)]_vars

\* The second activation has sent the request, the confirmation still showing.
C30_Witness == page.open /\ page.deleting /\ page.showDeleteConfirm

====
